---- MODULE Spec2Model ----
(***************************************************************************)
(* Pace Timer (src/pace_timer.py): the shared clock, its configuration     *)
(* and the HTTP handlers that read and change them under state_lock.       *)
(*                                                                         *)
(* Time is counted in whole seconds.  Every "with state_lock:" block of    *)
(* the source that cannot block inside is one atomic step guarded by the   *)
(* lock being free (acquire, body and release together); the one block     *)
(* that calls a locking function while it holds the lock (set_total,       *)
(* lines 280-283) keeps the lock across steps.  threading.Lock is not      *)
(* reentrant: a thread that holds it and asks for it again waits.          *)
(*                                                                         *)
(* The render loop of main is one more thread, stepping through one        *)
(* iteration per frame.  Clock texts are sequences of characters, and the  *)
(* floats of the boxes row are kept bit by bit, so that formatting,        *)
(* parsing and rounding are computed as Python computes them.              *)
(***************************************************************************)
EXTENDS Integers, FiniteSets, Sequences, TLC

\* ------------------------------------------------------------------ bounds
\* Wall-clock seconds the model lets pass after start-up.
MaxTime == 3
\* Number of concurrent Flask request threads (app.run(threaded=True)).
NumThreads == 2
\* add_time requests are issued only while the elapsed reading is at most this.
AddCap == 0
\* add_time and subtract_time requests sent in the runs that count them.
MaxRequests == 3
\* The total the process was configured with at start-up (file or environment).
InitTotal == 60
\* The segment count the process was configured with at start-up.
InitEnds == 2
\* PACE_TOTAL_SECONDS, in the runs that start with it set.
EnvTotal == 90
\* The largest number of seconds formatted and parsed back.
MaxSeconds == 7265
\* The boxes row is computed for every reading from 0 to this, and a few larger.
MaxFrameElapsed == 70
\* The total of the runs in which the render loop sees the clock pass it.
RenderTotal == 2
\* A short total and a large box count the boxes row is also computed for.
SmallTotal == 22
ManyEnds == 22

\* ------------------------------------------------------- program constants
\* add_time / subtract_time step: "current_elapsed + 60", "current_elapsed - 60".
MINUTE == 60
\* DEFAULT_TOTAL_SECONDS = 2 * 60 * 60
DEFAULT_TOTAL_SECONDS == 7200
DEFAULT_NUM_ENDS == 8

Threads == 1..NumThreads
\* The thread that serves the requests when they come one at a time.
Serial == 1
\* state_lock's owner when nobody holds it.
Free == 0
\* Python's None for _pause_epoch.
None == -1

Max(a, b) == IF a >= b THEN a ELSE b
Min(a, b) == IF a <= b THEN a ELSE b

\* A query parameter as the handler sees it: absent, unparsable, or a number.
Missing == [kind |-> "missing", val |-> 0]
Bad == [kind |-> "bad", val |-> 0]
Num(n) == [kind |-> "num", val |-> n]

\* Requests the clients send.
SecondsParams == {Missing, Bad, Num(-30), Num(0), Num(200)}
TotalParams == {Missing, Bad, Num(0), Num(1), Num(60)}
CountParams == {Missing, Bad, Num(0), Num(3)}
\* The JSON bodies posted to /config: each key absent, unusable or a number,
\* and logo_url or message given or not.
JsonTotals == {Missing, Bad, Num(0), Num(1)}
JsonEnds == {Missing, Bad, Num(0), Num(3)}
JsonBodies ==
  {[kind |-> "json", val |-> 0, total_seconds |-> a, num_ends |-> b, logo_url |-> c] :
     a \in JsonTotals, b \in JsonEnds, c \in BOOLEAN}
NoArgOps == {"status", "reset", "pause", "resume", "add_time", "subtract_time"}

VARIABLES
  now,                    \* time.time()
  start_epoch,            \* _start_epoch
  manual_elapsed_offset,  \* _manual_elapsed_offset
  paused,                 \* _paused
  pause_epoch,            \* _pause_epoch
  TOTAL_SECONDS,
  NUM_ENDS,
  state_lock,             \* Free, or the thread that holds the lock
  pc,                     \* each request thread's position in its handler
  op,                     \* the handler each thread runs
  param,                  \* the request's query parameter
  loc,                    \* the handler's local variables
  config_file,            \* pace_timer_config.json: the keys it holds (None: key absent)
  environ,                \* PACE_TOTAL_SECONDS, PACE_NUM_ENDS (None: not set)
  box_rects,              \* main: len(box_rects), the boxes laid out
  rpc,                    \* main: the render loop's position in its iteration
  rcall,                  \* main: the clock function a key press calls
  frame,                  \* main: the locals of the frame being drawn
  secs,                   \* a number of seconds handed to format_seconds_clock
  text,                   \* the clock text made from it
  parsed,                 \* parse_hms_to_seconds of that text
  asked,                  \* history, read by no handler: the add_time and subtract_time
                          \*   requests counted so far
  seen,                   \* history, read by no handler: for each thread inside status,
                          \*   the snapshots the system went through since its request began
  hist                    \* history, read by no handler:
                          \*   op:  the last call that wrote the clock or the configuration
                          \*   ref: the reading just before the last pause that took effect, kept
                          \*        until a set or reset, or until time passes on the running clock
                          \*   dur: paused_duration of the resume that ended that pause

clock == <<start_epoch, manual_elapsed_offset, paused, pause_epoch>>
config == <<TOTAL_SECONDS, NUM_ENDS>>
threads == <<pc, op, param, loc>>
disk == <<config_file, environ>>
ui == <<box_rects, rpc, rcall, frame>>
conv == <<secs, text, parsed>>
vars == <<now, start_epoch, manual_elapsed_offset, paused, pause_epoch,
          TOTAL_SECONDS, NUM_ENDS, state_lock, pc, op, param, loc, hist,
          config_file, environ, box_rects, rpc, rcall, frame, secs, text, parsed, seen,
          asked>>

\* ------------------------------------------------------- clock texts
\* A str is the sequence of its characters.
Digits == <<"0", "1", "2", "3", "4", "5", "6", "7", "8", "9">>

IsDigit(c) == \E d \in 1..10 : Digits[d] = c

DigitValue(c) == (CHOOSE d \in 1..10 : Digits[d] = c) - 1

\* str(n) for n >= 0, as the format specs "{h}" and "{m:02d}" write it.
RECURSIVE Decimal(_)
Decimal(n) ==
  IF n < 10 THEN <<Digits[n + 1]>> ELSE Decimal(n \div 10) \o <<Digits[(n % 10) + 1]>>

\* f"{n:02d}"
Pad2(n) == IF n < 10 THEN <<"0">> \o Decimal(n) ELSE Decimal(n)

\* format_seconds_clock that never writes the hours.
FormatSecondsClockNoHours(seconds) ==
  LET sec == IF seconds < 0 THEN 0 ELSE seconds
  IN Pad2((sec % 3600) \div 60) \o <<":">> \o Pad2(sec % 60)

\* format_seconds_clock(seconds)
FormatSecondsClock(seconds) ==
  LET sec == IF seconds < 0 THEN 0 ELSE seconds
      h == sec \div 3600
      m == (sec % 3600) \div 60
      sc == sec % 60
  IN IF h > 0
     THEN Decimal(h) \o <<":">> \o Pad2(m) \o <<":">> \o Pad2(sc)
     ELSE Pad2(m) \o <<":">> \o Pad2(sc)

\* str.split(":"): the parts between the colons, empty parts included.
RECURSIVE SplitColon(_)
SplitColon(str) ==
  IF \A i \in 1..Len(str) : str[i] # ":"
  THEN <<str>>
  ELSE LET i == CHOOSE j \in 1..Len(str) :
                  str[j] = ":" /\ \A k \in 1..(j - 1) : str[k] # ":"
       IN <<SubSeq(str, 1, i - 1)>> \o SplitColon(SubSeq(str, i + 1, Len(str)))

\* What parse_hms_to_seconds yields when int() or the part count raises ValueError.
ValueError == -2

\* int(part) of a text of digits; anything else here (an empty part, a colon) raises.
RECURSIVE ParseInt(_)
ParseInt(part) ==
  IF part = <<>> \/ \E i \in 1..Len(part) : ~IsDigit(part[i])
  THEN ValueError
  ELSE IF Len(part) = 1
       THEN DigitValue(part[1])
       ELSE ParseInt(SubSeq(part, 1, Len(part) - 1)) * 10 + DigitValue(part[Len(part)])

\* parse_hms_to_seconds(s), for texts without blanks (strip() has nothing to do).
ParseHmsToSeconds(str) ==
  LET parts == SplitColon(str)
      n == [i \in 1..Len(parts) |-> ParseInt(parts[i])]
  IN IF Len(parts) > 3 \/ \E i \in 1..Len(parts) : n[i] = ValueError
     THEN ValueError
     ELSE CASE Len(parts) = 1 -> n[1]
            [] Len(parts) = 2 -> n[1] * 60 + n[2]
            [] Len(parts) = 3 -> n[1] * 3600 + n[2] * 60 + n[3]

\* ------------------------------------------------------- float arithmetic
\* A non-negative Python float (IEEE 754 binary64) is its integer part ip and
\* the bits fb after the binary point, without trailing zeros; it carries at
\* most MantDig significant bits.  Division and multiplication compute the
\* exact result and round it to nearest, ties to even, as the hardware does.
MantDig == 53
\* The long division and the multiplication below work on this many bits at a time.
Chunk == 8

Zero == [ip |-> 0, fb |-> <<>>]
One == [ip |-> 1, fb |-> <<>>]

RECURSIVE BitLen(_)
BitLen(n) == IF n = 0 THEN 0 ELSE 1 + BitLen(n \div 2)

\* bits without its trailing zeros.
Trim(bits) ==
  IF \A i \in 1..Len(bits) : bits[i] = 0
  THEN <<>>
  ELSE SubSeq(bits, 1, CHOOSE i \in 1..Len(bits) :
                         bits[i] = 1 /\ \A j \in (i + 1)..Len(bits) : bits[j] = 0)

\* The number of zeros before the first 1 of bits.
LeadingZeros(bits) ==
  (CHOOSE i \in 1..Len(bits) : bits[i] = 1 /\ \A j \in 1..(i - 1) : bits[j] = 0) - 1

\* One unit in the last place of bits added to ip.bits.
Inc(ip, bits) ==
  IF \A i \in 1..Len(bits) : bits[i] = 1
  THEN [ip |-> ip + 1, fb |-> <<>>]
  ELSE LET i == CHOOSE j \in 1..Len(bits) :
                  bits[j] = 0 /\ \A k \in (j + 1)..Len(bits) : bits[k] = 1
       IN [ip |-> ip, fb |-> SubSeq(bits, 1, i - 1) \o <<1>>]

\* The exact value ip.bits rounded to MantDig significant bits.
RoundFloat(ip, bits) ==
  IF ip = 0 /\ \A i \in 1..Len(bits) : bits[i] = 0
  THEN Zero
  ELSE LET L == IF ip > 0 THEN MantDig - BitLen(ip) ELSE LeadingZeros(bits) + MantDig
       IN IF Len(bits) <= L
          THEN [ip |-> ip, fb |-> Trim(bits)]
          ELSE LET kept == SubSeq(bits, 1, L)
                   up == /\ bits[L + 1] = 1
                         /\ \/ \E i \in (L + 2)..Len(bits) : bits[i] = 1
                            \/ kept[L] = 1
               IN IF up THEN Inc(ip, kept) ELSE [ip |-> ip, fb |-> Trim(kept)]

\* The k bits of v < 2^k, the highest first.
ChunkBits(v, k) == [i \in 1..k |-> (v \div (2^(k - i))) % 2]

\* The number whose bits are given, the highest first.
RECURSIVE BitsValue(_)
BitsValue(bits) ==
  IF bits = <<>> THEN 0
  ELSE 2 * BitsValue(SubSeq(bits, 1, Len(bits) - 1)) + bits[Len(bits)]

\* n steps of the binary long division of r by d (r < d): the n quotient
\* bits and the remainder left, worked out Chunk bits at a time.
RECURSIVE LongDiv(_, _, _)
LongDiv(r, d, n) ==
  IF n = 0
  THEN [bits |-> <<>>, rem |-> r]
  ELSE LET k == Min(n, Chunk)
           v == r * (2^k)
           rest == LongDiv(v % d, d, n - k)
       IN [bits |-> ChunkBits(v \div d, k) \o rest.bits, rem |-> rest.rem]

\* The number of zeros that open the binary expansion of r / d (0 < r < d).
RECURSIVE LeadingZerosDiv(_, _)
LeadingZerosDiv(r, d) == IF 2 * r >= d THEN 0 ELSE 1 + LeadingZerosDiv(2 * r, d)

\* a / b of two floats that hold the integers a >= 0 and b > 0: the quotient's
\* bits down to the rounding position, one more, and a last bit that tells
\* whether anything is left, then rounded.
FloatDiv(a, b) ==
  LET ip == a \div b
      r == a % b
      L == IF ip > 0 THEN MantDig - BitLen(ip) ELSE LeadingZerosDiv(r, b) + MantDig
      q == LongDiv(r, b, L + 1)
  IN IF r = 0
     THEN [ip |-> ip, fb |-> <<>>]
     ELSE RoundFloat(ip, q.bits \o <<IF q.rem # 0 THEN 1 ELSE 0>>)

\* x * n of a float x and a float that holds the integer n >= 0.
\* The product is exact before it is rounded; it is worked out Chunk bits at
\* a time from the lowest bits up, v[k] being n times the k-th group of bits
\* plus what the groups below carry into it.
FloatMulInt(x, n) ==
  LET K == ((Len(x.fb) + Chunk) - 1) \div Chunk
      bit(i) == IF i <= Len(x.fb) THEN x.fb[i] ELSE 0
      limb(k) == BitsValue([i \in 1..Chunk |-> bit(Chunk * (k - 1) + i)])
      v[k \in 1..K] == limb(k) * n + (IF k = K THEN 0 ELSE v[k + 1] \div (2^Chunk))
      out == [i \in 1..(Chunk * K) |->
                ChunkBits(v[((i - 1) \div Chunk) + 1] % (2^Chunk), Chunk)[((i - 1) % Chunk) + 1]]
  IN RoundFloat(x.ip * n + (IF K = 0 THEN 0 ELSE v[1] \div (2^Chunk)), out)

\* x < y
FloatLess(x, y) ==
  LET bit(b, i) == IF i <= Len(b) THEN b[i] ELSE 0
  IN \/ x.ip < y.ip
     \/ /\ x.ip = y.ip
        /\ \E i \in 1..Max(Len(x.fb), Len(y.fb)) :
             /\ bit(x.fb, i) < bit(y.fb, i)
             /\ \A j \in 1..(i - 1) : bit(x.fb, j) = bit(y.fb, j)

\* min(x, y) and max(x, y) of Python: the first argument unless the second is
\* smaller (larger).
FloatMin(x, y) == IF FloatLess(y, x) THEN y ELSE x
FloatMax(x, y) == IF FloatLess(x, y) THEN y ELSE x

\* -------------------------------------------------------- the boxes row
\* tot = float(total_seconds()) or 1.0
FloatTotal(total) == IF total = 0 THEN 1 ELSE total

\* The fraction without its upper clamp.
FracUnclamped(el, tot) == FloatMax(Zero, FloatDiv(el, tot))

\* frac = max(0.0, min(1.0, el / tot))
Frac(el, tot) == FloatMax(Zero, FloatMin(One, FloatDiv(el, tot)))

\* The pointer index without its clamps.
CurrentIdxUnclamped(N, full_boxes) == full_boxes

\* current_idx = min(N - 1, max(0, full_boxes))
CurrentIdx(N, full_boxes) == Min(N - 1, Max(0, full_boxes))

\* The boxes row and the pointer of one frame, from el, total_seconds() and
\* the N boxes laid out.  fills[idx] is the share of box idx that is filled:
\* fill_w over the box's inner width, before it is cut to whole pixels.
DrawFrame(el, total, N) ==
  LET tot == FloatTotal(total)
      frac == Frac(el, tot)
      end_units == FloatMulInt(frac, N)
      full_boxes == end_units.ip
      partial == [ip |-> 0, fb |-> end_units.fb]
  IN [drawn |-> TRUE, el |-> el, total |-> total, N |-> N, tot |-> tot,
      frac |-> frac, end_units |-> end_units, full_boxes |-> full_boxes,
      partial |-> partial,
      fills |-> [idx \in 0..(N - 1) |-> IF idx < full_boxes THEN One
                                         ELSE IF idx = full_boxes THEN partial
                                         ELSE Zero],
      current_idx |-> CurrentIdx(N, full_boxes)]

\* ------------------------------------------------------------ the clock
\* now_elapsed's value before the floor at 0.
RawElapsed ==
  IF paused THEN (pause_epoch - start_epoch) + manual_elapsed_offset
  ELSE (now - start_epoch) + manual_elapsed_offset

\* now_elapsed without its floor.
NowElapsedNoFloor == RawElapsed

\* now_elapsed(): the elapsed reading.
NowElapsed == Max(0, RawElapsed)

\* set_elapsed that also clears the pause.
SetElapsedUnpausing(seconds) ==
  /\ start_epoch' = now
  /\ manual_elapsed_offset' = seconds
  /\ paused' = FALSE
  /\ pause_epoch' = None

\* set_elapsed(seconds), the body under the lock.
SetElapsed(seconds) ==
  /\ start_epoch' = now
  /\ manual_elapsed_offset' = seconds
  /\ UNCHANGED <<paused, pause_epoch>>

\* reset_timer that forgets to move the reference instant.
ResetTimerKeepingEpoch ==
  /\ manual_elapsed_offset' = 0
  /\ UNCHANGED <<start_epoch, paused, pause_epoch>>

\* reset_timer(), the body under the lock.
ResetTimer ==
  /\ start_epoch' = now
  /\ manual_elapsed_offset' = 0
  /\ UNCHANGED <<paused, pause_epoch>>

\* pause_timer without its "if not _paused" test.
PauseTimerUnguarded ==
  /\ paused' = TRUE
  /\ pause_epoch' = now
  /\ UNCHANGED <<start_epoch, manual_elapsed_offset>>

\* pause_timer(), the body under the lock.
PauseTimer ==
  IF ~paused
  THEN /\ paused' = TRUE
       /\ pause_epoch' = now
       /\ UNCHANGED <<start_epoch, manual_elapsed_offset>>
  ELSE UNCHANGED clock

\* resume_timer that does not shift the reference instant by the paused duration.
ResumeTimerNoShift ==
  IF paused
  THEN /\ paused' = FALSE
       /\ pause_epoch' = None
       /\ UNCHANGED <<start_epoch, manual_elapsed_offset>>
  ELSE UNCHANGED clock

\* resume_timer(), the body under the lock.
ResumeTimer ==
  IF paused
  THEN /\ start_epoch' = start_epoch + (now - pause_epoch)
       /\ paused' = FALSE
       /\ pause_epoch' = None
       /\ UNCHANGED manual_elapsed_offset
  ELSE UNCHANGED clock

\* ------------------------------------------------------------ the threads
\* A configuration source that holds neither key: no file, nothing in the environment.
NoKeys == [total_seconds |-> None, num_ends |-> None]

\* cfg: current_config of update_config and reload_config.
LocInit == [el |-> 0, tot |-> 0, seconds |-> 0, paused |-> FALSE, cfg |-> NoKeys]

\* The handler has returned its response: the thread is ready for the next request.
Return(t) ==
  /\ pc' = [pc EXCEPT ![t] = "idle"]
  /\ op' = [op EXCEPT ![t] = "none"]
  /\ param' = [param EXCEPT ![t] = Missing]
  /\ loc' = [loc EXCEPT ![t] = LocInit]

Goto(t, label) ==
  /\ pc' = [pc EXCEPT ![t] = label]
  /\ UNCHANGED <<op, param>>

\* DEFAULT_CONFIG, the two keys the timer reads.
DEFAULT_CONFIG == [total_seconds |-> DEFAULT_TOTAL_SECONDS, num_ends |-> DEFAULT_NUM_ENDS]

\* config.update(source): the keys the source holds replace those of base.
Override(base, source) ==
  [k \in {"total_seconds", "num_ends"} |-> IF source[k] # None THEN source[k] ELSE base[k]]

\* load_config(): the defaults, then the file, then the environment.
LoadConfig(file, env) == Override(Override(DEFAULT_CONFIG, file), env)

\* The configuration file of the runs that start from InitTotal and InitEnds.
StartFile == [total_seconds |-> InitTotal, num_ends |-> InitEnds]

\* The snapshot a /status payload is compared with: truncated elapsed, total,
\* segment count, paused flag.
Snapshot == <<NowElapsed, TOTAL_SECONDS, NUM_ENDS, paused>>

StatusPcs == {"status_el", "status_tot", "status_paused", "status_ends"}

\* The history of snapshots: every step adds the state it leads to to the
\* history of each thread that is inside status.
Observe ==
  seen' = [t \in Threads |-> IF pc'[t] \in StatusPcs THEN seen[t] \cup {Snapshot'} ELSE {}]

\* main's locals before the boxes row of a frame is computed.
FrameInit ==
  [drawn |-> FALSE, el |-> 0, total |-> 0, N |-> 0, tot |-> 0, frac |-> Zero,
   end_units |-> Zero, full_boxes |-> 0, partial |-> Zero, fills |-> <<>>, current_idx |-> 0,
   show_seconds |-> 0, timer_text |-> <<>>, paused |-> FALSE]

\* The state after the module is loaded with the given configuration file and
\* environment, and main has laid the boxes out.
Started(file, env) ==
  /\ start_epoch = 0
  /\ manual_elapsed_offset = 0
  /\ paused = FALSE
  /\ pause_epoch = None
  /\ config_file = file
  /\ environ = env
  /\ TOTAL_SECONDS = LoadConfig(file, env).total_seconds
  /\ NUM_ENDS = LoadConfig(file, env).num_ends
  /\ state_lock = Free
  /\ pc = [t \in Threads |-> "idle"]
  /\ op = [t \in Threads |-> "none"]
  /\ param = [t \in Threads |-> Missing]
  /\ loc = [t \in Threads |-> LocInit]
  /\ hist = [op |-> "none", ref |-> None, dur |-> 0]
  /\ box_rects = Max(1, LoadConfig(file, env).num_ends)
  /\ rpc = "top"
  /\ rcall = "none"
  /\ seen = [t \in Threads |-> {}]
  /\ asked = [add |-> 0, sub |-> 0]

\* The state right after start-up: no time has passed since the module was loaded.
InitWith(file, env) == now = 0 /\ Started(file, env)

\* No clock text has been made yet.
NoText == text = <<>> /\ parsed = None

\* No frame has been drawn yet.
NoFrame == frame = FrameInit

Init == InitWith(StartFile, NoKeys) /\ secs = 0 /\ NoText /\ NoFrame

\* A second of wall-clock time passes.
Tick ==
  /\ now < MaxTime
  /\ now' = now + 1
  /\ hist' = IF paused THEN hist ELSE [hist EXCEPT !.ref = None, !.dur = 0]
  /\ UNCHANGED <<clock, config, state_lock, threads, disk, ui, conv, asked>>
  /\ Observe

\* --------------------------------------------------------- the handlers
\* The first statement of each handler.
Entry(o) ==
  CASE o = "status" -> "status_el"
    [] o = "reset" -> "reset"
    [] o = "pause" -> "pause"
    [] o = "resume" -> "resume"
    [] o = "set_remaining" -> "sr_total"
    [] o = "set_total" -> "st_parse"
    [] o = "set_ends" -> "se_parse"
    [] o = "add_time" -> "add_read"
    [] o = "subtract_time" -> "sub_read"
    [] o = "update_config" -> "uc_load"

\* Every request the API serves (the configuration page's routes apart).
AllOps == NoArgOps \cup {"set_remaining", "set_total", "set_ends"}
\* The requests sent in the runs with overlapping handlers.
ConcOps == {"set_remaining", "set_total", "reset"}

\* A request for one of the operations in menu arrives and Flask hands it to thread t.
InvokeFrom(t, menu) ==
  /\ pc[t] = "idle"
  /\ \E o \in menu :
       \E p \in (CASE o = "set_remaining" -> SecondsParams
                   [] o = "set_total" -> TotalParams
                   [] o = "set_ends" -> CountParams
                   [] o = "update_config" -> JsonBodies
                   [] OTHER -> {Missing}) :
         /\ o = "add_time" => NowElapsed <= AddCap
         /\ pc' = [pc EXCEPT ![t] = Entry(o)]
         /\ op' = [op EXCEPT ![t] = o]
         /\ param' = [param EXCEPT ![t] = p]
  /\ UNCHANGED <<now, asked, disk, ui, conv, clock, config, state_lock, loc, hist>>
  /\ Observe

Invoke(t) == InvokeFrom(t, AllOps)

InvokeConc(t) == InvokeFrom(t, ConcOps)

\* status: el = int(now_elapsed())
StatusReadElapsed(t) ==
  /\ pc[t] = "status_el"
  /\ state_lock = Free
  /\ loc' = [loc EXCEPT ![t].el = NowElapsed]
  /\ Goto(t, "status_tot")
  /\ UNCHANGED <<now, asked, disk, ui, conv, clock, config, state_lock, hist>>
  /\ Observe

\* status: tot = total_seconds()
StatusReadTotal(t) ==
  /\ pc[t] = "status_tot"
  /\ state_lock = Free
  /\ loc' = [loc EXCEPT ![t].tot = TOTAL_SECONDS]
  /\ Goto(t, "status_paused")
  /\ UNCHANGED <<now, asked, disk, ui, conv, clock, config, state_lock, hist>>
  /\ Observe

\* status: with state_lock: paused = _paused; logo = LOGO_URL
StatusReadPaused(t) ==
  /\ pc[t] = "status_paused"
  /\ state_lock = Free
  /\ loc' = [loc EXCEPT ![t].paused = paused]
  /\ Goto(t, "status_ends")
  /\ UNCHANGED <<now, asked, disk, ui, conv, clock, config, state_lock, hist>>
  /\ Observe

\* status: "num_ends": num_ends(), and the payload is returned.
StatusReadEnds(t) ==
  /\ pc[t] = "status_ends"
  /\ state_lock = Free
  /\ Return(t)
  /\ UNCHANGED <<now, asked, disk, ui, conv, clock, config, state_lock, hist>>
  /\ Observe

\* POST /reset
ResetCall(t) ==
  /\ pc[t] = "reset"
  /\ state_lock = Free
  /\ ResetTimer
  /\ Return(t)
  /\ hist' = [op |-> "reset", ref |-> None, dur |-> 0]
  /\ UNCHANGED <<now, asked, disk, ui, conv, config, state_lock>>
  /\ Observe

\* POST /pause
PauseCall(t) ==
  /\ pc[t] = "pause"
  /\ state_lock = Free
  /\ PauseTimer
  /\ Return(t)
  /\ hist' = [op |-> IF hist.op \in {"pause", "pause_again"} THEN "pause_again" ELSE "pause",
              ref |-> IF paused THEN hist.ref ELSE NowElapsed,
              dur |-> 0]
  /\ UNCHANGED <<now, asked, disk, ui, conv, config, state_lock>>
  /\ Observe

\* POST /resume
ResumeCall(t) ==
  /\ pc[t] = "resume"
  /\ state_lock = Free
  /\ ResumeTimer
  /\ Return(t)
  /\ hist' = [hist EXCEPT
                !.op = IF hist.op \in {"resume", "resume_again"} THEN "resume_again" ELSE "resume",
                !.dur = IF paused /\ hist.ref # None THEN now - pause_epoch ELSE hist.dur]
  /\ UNCHANGED <<now, asked, disk, ui, conv, config, state_lock>>
  /\ Observe

\* The remaining time set_remaining asks for: max(0.0, min(rem, float(tot))).
ClampRemaining(rem, tot) == Max(0, Min(rem, tot))

\* set_remaining: tot = total_seconds(), then the parameters are parsed and
\* elapsed_to_set = tot - rem is computed (no shared state is touched).
SetRemainingReadTotal(t) ==
  /\ pc[t] = "sr_total"
  /\ state_lock = Free
  /\ IF param[t].kind # "num"
     THEN Goto(t, "reject") /\ UNCHANGED loc
     ELSE /\ loc' = [loc EXCEPT ![t].tot = TOTAL_SECONDS,
                                ![t].seconds = TOTAL_SECONDS - ClampRemaining(param[t].val, TOTAL_SECONDS)]
          /\ Goto(t, "set_elapsed")
  /\ UNCHANGED <<now, asked, disk, ui, conv, clock, config, state_lock, hist>>
  /\ Observe

\* The call set_elapsed(seconds) of set_remaining, set_total, add_time and
\* subtract_time: it takes state_lock itself, so it waits while anyone,
\* the caller included, holds the lock.  In set_total the with-block ends
\* after the call and the handler goes on to its return statement.
SetElapsedCall(t) ==
  /\ pc[t] = "set_elapsed"
  /\ state_lock = Free
  /\ SetElapsed(loc[t].seconds)
  /\ IF op[t] = "set_total"
     THEN Goto(t, "st_return") /\ UNCHANGED loc
     ELSE Return(t)
  /\ state_lock' = Free
  /\ hist' = [op |-> "set_elapsed", ref |-> None, dur |-> 0]
  /\ UNCHANGED <<now, asked, disk, ui, conv, config>>
  /\ Observe

\* set_total with the check new_total <= 0 left out.
SetTotalParseUnvalidated(t) ==
  /\ pc[t] = "st_parse"
  /\ IF param[t].kind # "num"
     THEN Goto(t, "reject") /\ UNCHANGED loc
     ELSE Goto(t, "st_elapsed") /\ UNCHANGED loc
  /\ UNCHANGED <<now, asked, disk, ui, conv, clock, config, state_lock, hist>>
  /\ Observe

\* set_total: the parameters are parsed; new_total <= 0 is rejected.
SetTotalParse(t) ==
  /\ pc[t] = "st_parse"
  /\ IF param[t].kind # "num" \/ param[t].val <= 0
     THEN Goto(t, "reject") /\ UNCHANGED loc
     ELSE Goto(t, "st_elapsed") /\ UNCHANGED loc
  /\ UNCHANGED <<now, asked, disk, ui, conv, clock, config, state_lock, hist>>
  /\ Observe

\* set_total: el = now_elapsed()
SetTotalReadElapsed(t) ==
  /\ pc[t] = "st_elapsed"
  /\ state_lock = Free
  /\ loc' = [loc EXCEPT ![t].el = NowElapsed]
  /\ Goto(t, "st_write")
  /\ UNCHANGED <<now, asked, disk, ui, conv, clock, config, state_lock, hist>>
  /\ Observe

\* set_total: with state_lock: TOTAL_SECONDS = new_total; if el > TOTAL_SECONDS
\* the thread goes on to call set_elapsed(TOTAL_SECONDS) inside the block,
\* still holding the lock; otherwise the block ends and the lock is released.
SetTotalWrite(t) ==
  /\ pc[t] = "st_write"
  /\ state_lock = Free
  /\ TOTAL_SECONDS' = param[t].val
  /\ IF loc[t].el > param[t].val
     THEN /\ state_lock' = t
          /\ loc' = [loc EXCEPT ![t].seconds = param[t].val]
          /\ Goto(t, "set_elapsed")
     ELSE /\ state_lock' = Free
          /\ Goto(t, "st_return")
          /\ UNCHANGED loc
  /\ hist' = [hist EXCEPT !.op = "set_total"]
  /\ UNCHANGED <<now, asked, disk, ui, conv, clock, NUM_ENDS>>
  /\ Observe

\* set_total: return jsonify({"ok": True, "total_seconds": total_seconds()})
SetTotalReturn(t) ==
  /\ pc[t] = "st_return"
  /\ state_lock = Free
  /\ Return(t)
  /\ UNCHANGED <<now, asked, disk, ui, conv, clock, config, state_lock, hist>>
  /\ Observe

\* set_ends with the check n < 1 left out.
SetEndsParseUnvalidated(t) ==
  /\ pc[t] = "se_parse"
  /\ IF param[t].kind # "num"
     THEN Goto(t, "reject") /\ UNCHANGED loc
     ELSE Goto(t, "se_write") /\ UNCHANGED loc
  /\ UNCHANGED <<now, asked, disk, ui, conv, clock, config, state_lock, hist>>
  /\ Observe

\* set_ends: count is parsed; a missing or empty count, an unparsable one and n < 1 are rejected.
SetEndsParse(t) ==
  /\ pc[t] = "se_parse"
  /\ IF param[t].kind # "num" \/ param[t].val < 1
     THEN Goto(t, "reject") /\ UNCHANGED loc
     ELSE Goto(t, "se_write") /\ UNCHANGED loc
  /\ UNCHANGED <<now, asked, disk, ui, conv, clock, config, state_lock, hist>>
  /\ Observe

\* set_ends: with state_lock: NUM_ENDS = n
SetEndsWrite(t) ==
  /\ pc[t] = "se_write"
  /\ state_lock = Free
  /\ NUM_ENDS' = param[t].val
  /\ Goto(t, "se_return")
  /\ hist' = [hist EXCEPT !.op = "set_ends"]
  /\ UNCHANGED <<now, asked, disk, ui, conv, clock, TOTAL_SECONDS, state_lock, loc>>
  /\ Observe

\* set_ends: return jsonify({"ok": True, "num_ends": num_ends()})
SetEndsReturn(t) ==
  /\ pc[t] = "se_return"
  /\ state_lock = Free
  /\ Return(t)
  /\ UNCHANGED <<now, asked, disk, ui, conv, clock, config, state_lock, hist>>
  /\ Observe

\* add_time: current_elapsed = now_elapsed(); new_elapsed = current_elapsed + 60
AddTimeRead(t) ==
  /\ pc[t] = "add_read"
  /\ state_lock = Free
  /\ loc' = [loc EXCEPT ![t].el = NowElapsed, ![t].seconds = NowElapsed + MINUTE]
  /\ Goto(t, "set_elapsed")
  /\ UNCHANGED <<now, asked, disk, ui, conv, clock, config, state_lock, hist>>
  /\ Observe

\* subtract_time: current_elapsed = now_elapsed(); new_elapsed = max(0, current_elapsed - 60)
SubtractTimeRead(t) ==
  /\ pc[t] = "sub_read"
  /\ state_lock = Free
  /\ loc' = [loc EXCEPT ![t].el = NowElapsed, ![t].seconds = Max(0, NowElapsed - MINUTE)]
  /\ Goto(t, "set_elapsed")
  /\ UNCHANGED <<now, asked, disk, ui, conv, clock, config, state_lock, hist>>
  /\ Observe

\* update_config: current_config = load_config(), then the body's keys are
\* checked and written into current_config.  A key that int() refuses, a
\* total <= 0, a count < 1 and a body with none of the keys are answered 400.
UpdateConfigLoad(t) ==
  /\ pc[t] = "uc_load"
  /\ LET data == param[t]
         cur == LoadConfig(config_file, environ)
         badTotal == \/ data.total_seconds.kind = "bad"
                     \/ data.total_seconds.kind = "num" /\ data.total_seconds.val <= 0
         badEnds == \/ data.num_ends.kind = "bad"
                    \/ data.num_ends.kind = "num" /\ data.num_ends.val < 1
         updated == \/ data.total_seconds.kind # "missing"
                    \/ data.num_ends.kind # "missing"
                    \/ data.logo_url
         new == [total_seconds |-> IF data.total_seconds.kind = "num"
                                   THEN data.total_seconds.val ELSE cur.total_seconds,
                 num_ends |-> IF data.num_ends.kind = "num"
                              THEN data.num_ends.val ELSE cur.num_ends]
     IN IF badTotal \/ badEnds \/ ~updated
        THEN Goto(t, "reject") /\ UNCHANGED loc
        ELSE loc' = [loc EXCEPT ![t].cfg = new] /\ Goto(t, "uc_save")
  /\ UNCHANGED <<now, asked, disk, ui, conv, clock, config, state_lock, hist>>
  /\ Observe

\* update_config: save_config(current_config).  The file is written, or the
\* write fails (the file is left as it was, or truncated and unreadable, which
\* load_config treats as no file) and the request is answered 500.
UpdateConfigSave(t) ==
  /\ pc[t] = "uc_save"
  /\ \/ config_file' = loc[t].cfg /\ Goto(t, "uc_reload") /\ UNCHANGED loc
     \/ config_file' \in {config_file, NoKeys} /\ Return(t)
  /\ UNCHANGED <<now, asked, environ, ui, conv, clock, config, state_lock, hist>>
  /\ Observe

\* reload_config: current_config = load_config()
UpdateConfigReload(t) ==
  /\ pc[t] = "uc_reload"
  /\ loc' = [loc EXCEPT ![t].cfg = LoadConfig(config_file, environ)]
  /\ Goto(t, "uc_apply")
  /\ UNCHANGED <<now, asked, disk, ui, conv, clock, config, state_lock, hist>>
  /\ Observe

\* reload_config: with state_lock: TOTAL_SECONDS = ...; NUM_ENDS = ...; and
\* update_config returns.
UpdateConfigApply(t) ==
  /\ pc[t] = "uc_apply"
  /\ state_lock = Free
  /\ TOTAL_SECONDS' = loc[t].cfg.total_seconds
  /\ NUM_ENDS' = loc[t].cfg.num_ends
  /\ Return(t)
  /\ hist' = [hist EXCEPT !.op = "update_config"]
  /\ UNCHANGED <<now, asked, disk, ui, conv, clock, state_lock>>
  /\ Observe

\* return jsonify({"ok": False, "error": ...}), 400 of set_remaining, set_total,
\* set_ends and update_config.
RejectReturn(t) ==
  /\ pc[t] = "reject"
  /\ Return(t)
  /\ UNCHANGED <<now, asked, disk, ui, conv, clock, config, state_lock, hist>>
  /\ Observe

\* One step of thread t inside a handler.
Step(t) ==
  \/ StatusReadElapsed(t)
  \/ StatusReadTotal(t)
  \/ StatusReadPaused(t)
  \/ StatusReadEnds(t)
  \/ ResetCall(t)
  \/ PauseCall(t)
  \/ ResumeCall(t)
  \/ SetRemainingReadTotal(t)
  \/ SetElapsedCall(t)
  \/ SetTotalParse(t)
  \/ SetTotalReadElapsed(t)
  \/ SetTotalWrite(t)
  \/ SetTotalReturn(t)
  \/ SetEndsParse(t)
  \/ SetEndsWrite(t)
  \/ SetEndsReturn(t)
  \/ AddTimeRead(t)
  \/ SubtractTimeRead(t)
  \/ RejectReturn(t)

\* One step of thread t inside one of the handlers of ConcOps.
StepConc(t) ==
  \/ ResetCall(t)
  \/ SetRemainingReadTotal(t)
  \/ SetElapsedCall(t)
  \/ SetTotalParse(t)
  \/ SetTotalReadElapsed(t)
  \/ SetTotalWrite(t)
  \/ SetTotalReturn(t)
  \/ RejectReturn(t)

\* Requests served one at a time, by one thread, with time passing at any point.
Next ==
  \/ Tick
  \/ Invoke(Serial)
  \/ Step(Serial)

Spec == Init /\ [][Next]_vars

\* Requests of ConcOps served by all the threads at once.
NextConc ==
  \/ Tick
  \/ \E t \in Threads : InvokeConc(t)
  \/ \E t \in Threads : StepConc(t)

ConcSpec == Init /\ [][NextConc]_vars

\* The threads are scheduled fairly: a handler step that stays possible is taken.
FairSpec == ConcSpec /\ \A t \in Threads : WF_vars(StepConc(t))

\* Requests of ConcOps served by all the threads at once, with no time passing:
\* whatever happens here is the handlers' interleaving alone.
NextRace ==
  \/ \E t \in Threads : InvokeConc(t)
  \/ \E t \in Threads : StepConc(t)

RaceSpec == Init /\ [][NextRace]_vars

\* /status requests with requests that change what the payload reports beside them.
SnapOps == {"status", "pause", "resume", "set_ends"}

InvokeSnap(t) == InvokeFrom(t, SnapOps)

\* One step of thread t inside one of the handlers of SnapOps.
StepSnap(t) ==
  \/ StatusReadElapsed(t)
  \/ StatusReadTotal(t)
  \/ StatusReadPaused(t)
  \/ StatusReadEnds(t)
  \/ PauseCall(t)
  \/ ResumeCall(t)
  \/ SetEndsParse(t)
  \/ SetEndsWrite(t)
  \/ SetEndsReturn(t)
  \/ RejectReturn(t)

NextSnap ==
  \/ Tick
  \/ \E t \in Threads : InvokeSnap(t)
  \/ \E t \in Threads : StepSnap(t)

SnapSpec == Init /\ [][NextSnap]_vars

\* ------------------------------------------------------- the render loop
\* state_lock's owner when main, the render loop's thread, holds it.
Main == NumThreads + 1

\* What pygame.event.get() hands to one iteration: nothing, the r key, the space key.
Keys == {"none", "r", "space"}

\* What the render loop leaves alone.
RenderFrame == UNCHANGED <<now, asked, disk, conv, config, threads>>

\* while running: if len(box_rects) != num_ends(): ...
RenderCheckBoxes ==
  /\ rpc = "top"
  /\ state_lock = Free
  /\ rpc' = IF box_rects # NUM_ENDS THEN "recompute" ELSE "events"
  /\ frame' = FrameInit
  /\ UNCHANGED <<clock, state_lock, hist, box_rects, rcall>>
  /\ RenderFrame
  /\ Observe

\* box_rects = recompute_boxes(num_ends()), which lays out max(1, N) boxes.
RenderRecompute ==
  /\ rpc = "recompute"
  /\ state_lock = Free
  /\ box_rects' = Max(1, NUM_ENDS)
  /\ rpc' = "events"
  /\ UNCHANGED <<clock, state_lock, hist, rcall, frame>>
  /\ RenderFrame
  /\ Observe

\* for event in pygame.event.get(): the r key calls reset_timer(); the space
\* key takes state_lock, reads _paused and, still holding the lock, calls
\* resume_timer() or pause_timer().
RenderEvents ==
  /\ rpc = "events"
  /\ \E key \in Keys :
       CASE key = "none" -> rpc' = "read_el" /\ UNCHANGED <<state_lock, rcall>>
         [] key = "r" -> rpc' = "call" /\ rcall' = "reset" /\ UNCHANGED state_lock
         [] key = "space" -> /\ state_lock = Free
                             /\ state_lock' = Main
                             /\ rcall' = IF paused THEN "resume" ELSE "pause"
                             /\ rpc' = "call"
  /\ UNCHANGED <<clock, hist, box_rects, frame>>
  /\ RenderFrame
  /\ Observe

\* The call of reset_timer(), pause_timer() or resume_timer() made for a key:
\* each takes state_lock itself, so it waits while anyone holds it.
RenderClockCall ==
  /\ rpc = "call"
  /\ state_lock = Free
  /\ CASE rcall = "reset" ->
            ResetTimer /\ hist' = [op |-> "reset", ref |-> None, dur |-> 0]
       [] rcall = "pause" ->
            /\ PauseTimer
            /\ hist' = [op |-> IF hist.op \in {"pause", "pause_again"}
                               THEN "pause_again" ELSE "pause",
                        ref |-> IF paused THEN hist.ref ELSE NowElapsed,
                        dur |-> 0]
       [] rcall = "resume" ->
            /\ ResumeTimer
            /\ hist' = [hist EXCEPT
                          !.op = IF hist.op \in {"resume", "resume_again"}
                                 THEN "resume_again" ELSE "resume",
                          !.dur = IF paused /\ hist.ref # None
                                  THEN now - pause_epoch ELSE hist.dur]
  /\ rpc' = "read_el"
  /\ rcall' = "none"
  /\ UNCHANGED <<state_lock, box_rects, frame>>
  /\ RenderFrame
  /\ Observe

\* el = now_elapsed()
RenderReadElapsed ==
  /\ rpc = "read_el"
  /\ state_lock = Free
  /\ frame' = [frame EXCEPT !.el = NowElapsed]
  /\ rpc' = "show"
  /\ UNCHANGED <<clock, state_lock, hist, box_rects, rcall>>
  /\ RenderFrame
  /\ Observe

\* show_seconds = min(int(el), total_seconds()); timer_text = format_seconds_clock(show_seconds)
RenderShowSeconds ==
  /\ rpc = "show"
  /\ state_lock = Free
  /\ frame' = [frame EXCEPT
                 !.show_seconds = Min(frame.el, TOTAL_SECONDS),
                 !.timer_text = FormatSecondsClock(Min(frame.el, TOTAL_SECONDS))]
  /\ rpc' = "suffix"
  /\ UNCHANGED <<clock, state_lock, hist, box_rects, rcall>>
  /\ RenderFrame
  /\ Observe

\* with state_lock: if _paused: timer_text += "  (paused)"
RenderPausedSuffix ==
  /\ rpc = "suffix"
  /\ state_lock = Free
  /\ frame' = [frame EXCEPT !.paused = paused]
  /\ rpc' = "boxes"
  /\ UNCHANGED <<clock, state_lock, hist, box_rects, rcall>>
  /\ RenderFrame
  /\ Observe

\* tot = float(total_seconds()) or 1.0, then the boxes row and the pointer
\* are computed and drawn for the N = len(box_rects) boxes, and the frame is shown.
RenderBoxes ==
  /\ rpc = "boxes"
  /\ state_lock = Free
  /\ frame' = DrawFrame(frame.el, TOTAL_SECONDS, box_rects) @@ frame
  /\ rpc' = "top"
  /\ UNCHANGED <<clock, state_lock, hist, box_rects, rcall>>
  /\ RenderFrame
  /\ Observe

\* One step of the render loop.
RenderStep ==
  \/ RenderCheckBoxes
  \/ RenderRecompute
  \/ RenderEvents
  \/ RenderClockCall
  \/ RenderReadElapsed
  \/ RenderShowSeconds
  \/ RenderPausedSuffix
  \/ RenderBoxes

\* The request sent while the render loop runs.
RenderOps == {"set_ends"}

InvokeRender(t) == InvokeFrom(t, RenderOps)

\* One step of thread t inside set_ends.
StepRender(t) ==
  \/ SetEndsParse(t)
  \/ SetEndsWrite(t)
  \/ SetEndsReturn(t)
  \/ RejectReturn(t)

\* The configuration file of the runs in which the clock passes the total.
RenderFile == [total_seconds |-> RenderTotal, num_ends |-> InitEnds]

InitRender == InitWith(RenderFile, NoKeys) /\ secs = 0 /\ NoText /\ NoFrame

\* The render loop and one request thread, with time passing at any point.
NextRender ==
  \/ Tick
  \/ InvokeRender(Serial)
  \/ StepRender(Serial)
  \/ RenderStep

RenderSpec == InitRender /\ [][NextRender]_vars

\* The render loop's call for a key and the request thread are scheduled
\* fairly: the call is made once state_lock stays free for it, and a handler
\* step that stays possible is taken.
FairRenderSpec ==
  RenderSpec /\ WF_vars(RenderClockCall) /\ WF_vars(StepRender(Serial))

\* -------------------------------------- overlapping add and subtract
\* The requests of the runs that count the minutes added and subtracted.
AddOps == {"add_time", "subtract_time"}

\* The readings those runs start from: the process has just started, or has
\* run untouched for two minutes.
AddStarts == {0, 2 * MINUTE}

\* An add_time or subtract_time request arrives and Flask hands it to thread t.
InvokeAdd(t) ==
  /\ pc[t] = "idle"
  /\ asked.add + asked.sub < MaxRequests
  /\ \E o \in AddOps :
       /\ pc' = [pc EXCEPT ![t] = Entry(o)]
       /\ op' = [op EXCEPT ![t] = o]
       /\ asked' = IF o = "add_time" THEN [asked EXCEPT !.add = @ + 1]
                                     ELSE [asked EXCEPT !.sub = @ + 1]
  /\ UNCHANGED <<now, disk, ui, conv, clock, config, state_lock, param, loc, hist>>
  /\ Observe

\* One step of thread t inside add_time or subtract_time.
StepAdd(t) ==
  \/ AddTimeRead(t)
  \/ SubtractTimeRead(t)
  \/ SetElapsedCall(t)

InitAdd == now \in AddStarts /\ Started(StartFile, NoKeys) /\ secs = 0 /\ NoText /\ NoFrame

\* The request threads serve add_time and subtract_time in any interleaving;
\* no time passes meanwhile, so the reading without the requests stays the
\* one the run started from.
NextAdd ==
  \/ \E t \in Threads : InvokeAdd(t)
  \/ \E t \in Threads : StepAdd(t)

AddSpec == InitAdd /\ [][NextAdd]_vars

\* The seconds handed to format_seconds_clock.
FmtInputs == (0 - 1)..MaxSeconds

\* timer_text = format_seconds_clock(show_seconds)
FormatClock ==
  /\ text = <<>>
  /\ text' = FormatSecondsClock(secs)
  /\ UNCHANGED <<now, asked, disk, ui, clock, config, state_lock, threads, hist, seen, secs, parsed>>

\* parse_hms_to_seconds(timer_text)
ParseClock ==
  /\ text # <<>>
  /\ parsed = None
  /\ parsed' = ParseHmsToSeconds(text)
  /\ UNCHANGED <<now, asked, disk, ui, clock, config, state_lock, threads, hist, seen, secs, text>>

NextFmt ==
  \/ FormatClock
  \/ ParseClock

InitFmt == InitWith(StartFile, NoKeys) /\ secs \in FmtInputs /\ NoText /\ NoFrame

\* The readings, totals and box counts the boxes row is computed for.
FrameElapsed == 0..MaxFrameElapsed \cup {900, 7199, 7200, 7265}
FrameTotals == {1, SmallTotal, InitTotal, DEFAULT_TOTAL_SECONDS}
FrameEnds == {1, InitEnds, DEFAULT_NUM_ENDS, ManyEnds}
FrameInputs ==
  {[FrameInit EXCEPT !.el = e, !.total = t, !.N = n] :
     e \in FrameElapsed, t \in FrameTotals, n \in FrameEnds}

\* main, lines 587-614: the boxes row and the pointer for the frame's inputs.
ComputeFrame ==
  /\ ~frame.drawn
  /\ frame' = DrawFrame(frame.el, frame.total, frame.N) @@ frame
  /\ UNCHANGED <<now, asked, disk, conv, clock, config, state_lock, threads, hist, seen,
                 box_rects, rpc, rcall>>

\* The next frame is about to be computed.
ClearFrame ==
  /\ frame.drawn
  /\ frame' = [FrameInit EXCEPT !.el = frame.el, !.total = frame.total, !.N = frame.N]
  /\ UNCHANGED <<now, asked, disk, conv, clock, config, state_lock, threads, hist, seen,
                 box_rects, rpc, rcall>>

NextFrame ==
  \/ ComputeFrame
  \/ ClearFrame

InitFrame == InitWith(StartFile, NoKeys) /\ secs = 0 /\ NoText /\ frame \in FrameInputs

FrameSpec == InitFrame /\ [][NextFrame]_vars

FmtSpec == InitFmt /\ [][NextFmt]_vars

\* The requests that write the configuration, and set_remaining beside them.
CfgOps == {"set_total", "set_ends", "update_config", "set_remaining"}

InvokeCfg(t) == InvokeFrom(t, CfgOps)

\* One step of thread t inside one of the handlers of CfgOps.
StepCfg(t) ==
  \/ SetRemainingReadTotal(t)
  \/ SetElapsedCall(t)
  \/ SetTotalParse(t)
  \/ SetTotalReadElapsed(t)
  \/ SetTotalWrite(t)
  \/ SetTotalReturn(t)
  \/ SetEndsParse(t)
  \/ SetEndsWrite(t)
  \/ SetEndsReturn(t)
  \/ UpdateConfigLoad(t)
  \/ UpdateConfigSave(t)
  \/ UpdateConfigReload(t)
  \/ UpdateConfigApply(t)
  \/ RejectReturn(t)

\* The valid configurations the process may start from: no file or a file
\* with both keys, nothing in the environment or PACE_TOTAL_SECONDS set.
StartFiles == {NoKeys, StartFile}
StartEnvirons == {NoKeys, [total_seconds |-> EnvTotal, num_ends |-> None]}

InitCfg ==
  /\ \E file \in StartFiles, env \in StartEnvirons : InitWith(file, env)
  /\ secs = 0
  /\ NoText
  /\ NoFrame

\* The configuration requests served one at a time, with time passing at any point.
NextCfg ==
  \/ Tick
  \/ InvokeCfg(Serial)
  \/ StepCfg(Serial)

CfgSpec == InitCfg /\ [][NextCfg]_vars

\* int(x) of a reading: readings are whole seconds here.
Trunc(x) == x

\* main, timer pill: show_seconds = min(int(now_elapsed()), total_seconds()).
ShowSeconds == Min(Trunc(NowElapsed), TOTAL_SECONDS)

\* status: "elapsed_seconds": int(now_elapsed()).
StatusElapsedSeconds == Trunc(NowElapsed)

\* The request thread t is serving is one the handlers answer with 400: a
\* missing or unparsable parameter, a total <= 0, a count < 1.
Rejected(t) ==
  \/ op[t] \in {"set_remaining", "set_total", "set_ends"} /\ param[t].kind # "num"
  \/ op[t] = "set_total" /\ param[t].kind = "num" /\ param[t].val <= 0
  \/ op[t] = "set_ends" /\ param[t].kind = "num" /\ param[t].val < 1

\* ---------------------------------------------------------------- claims
\* C1: a set_total(newTotal) request whose elapsed reading is greater than
\* newTotal returns, and at its return statement the total and the elapsed
\* reading both equal newTotal; when the reading is at most newTotal the
\* total is written and the elapsed reading is left as it was.
C1_SetTotalClampsAndReturns ==
  /\ \A t \in Threads :
       (pc[t] = "st_write" /\ loc[t].el > param[t].val)
         ~> (pc[t] = "st_return" /\ TOTAL_SECONDS = param[t].val /\ NowElapsed = param[t].val)
  /\ [][\A t \in Threads :
          (SetTotalWrite(t) /\ loc[t].el <= param[t].val)
            => (TOTAL_SECONDS' = param[t].val /\ NowElapsed' = NowElapsed)]_vars

\* C2: every request that a thread has begun to serve is eventually answered,
\* the thread back in its idle state and not holding state_lock.
C2_EveryOperationReturns ==
  \A t \in Threads : (pc[t] # "idle") ~> (pc[t] = "idle" /\ state_lock # t)

\* C3: the elapsed reading taken right after set_elapsed(x) returns, with no
\* time passing in between, equals x, on the running and on the paused clock.
C3_SetElapsedRoundTrip ==
  [][\A t \in Threads : SetElapsedCall(t) => NowElapsed' = loc[t].seconds]_vars

\* C4: with no set, reset, add or subtract in between, the reading taken just
\* before pause() equals every reading while paused and the reading right
\* after the resume() that follows, however long the pause lasts.
C4_PauseContinuity == hist.ref # None => NowElapsed = hist.ref

\* C4's case: a clock that ran, was paused for a time and has just been resumed.
C4_Witness ==
  /\ ~paused
  /\ hist.op = "resume"
  /\ hist.ref # None /\ hist.ref > 0
  /\ hist.dur > 0

\* C5: pause() called right after pause(), whatever time passed between the
\* two calls, leaves the paused flag, the pause instant, the reference
\* instant and the offset as the first call left them; the same for resume().
C5_PauseResumeIdempotent ==
  [][\A t \in Threads :
       /\ (PauseCall(t) /\ hist.op \in {"pause", "pause_again"}) => UNCHANGED clock
       /\ (ResumeCall(t) /\ hist.op \in {"resume", "resume_again"}) => UNCHANGED clock]_vars

\* C5's case: the second of two pause() calls in a row has returned, and the
\* pause instant lies in the past.
C5_Witness == hist.op = "pause_again" /\ paused /\ pause_epoch < now

\* C6: right after reset returns the elapsed reading is 0, on the running and
\* on the paused clock.
C6_ResetReadsZero ==
  [][\A t \in Threads : ResetCall(t) => NowElapsed' = 0]_vars

\* C6's case: reset was the last call, on a clock paused some time before it.
C6_Witness ==
  /\ hist.op = "reset"
  /\ paused /\ pause_epoch < start_epoch
  /\ NowElapsed = 0

\* C7: on the running clock, when set_remaining(r) returns the elapsed reading
\* is the total then in force minus r clamped to [0, total], also when
\* set_total requests run at the same time.
C7_SetRemainingAgainstTotalInForce ==
  [][\A t \in Threads :
       (SetElapsedCall(t) /\ op[t] = "set_remaining" /\ ~paused)
         => NowElapsed' = TOTAL_SECONDS' - ClampRemaining(param[t].val, TOTAL_SECONDS')]_vars

\* C8: an add_time request that nothing interleaves with raises the elapsed
\* reading by exactly 60 and a subtract_time request lowers it by 60, floored
\* at 0, on the running and on the paused clock.
C8_AddSubtractExactMinute ==
  [][\A t \in Threads :
       /\ (SetElapsedCall(t) /\ op[t] = "add_time" /\ loc[t].el = NowElapsed)
            => NowElapsed' = NowElapsed + MINUTE
       /\ (SetElapsedCall(t) /\ op[t] = "subtract_time" /\ loc[t].el = NowElapsed)
            => NowElapsed' = Max(0, NowElapsed - MINUTE)]_vars

\* C9: the elapsed reading is never negative, in any reachable state and in
\* any reading a handler took.
C9_ElapsedNeverNegative ==
  /\ NowElapsed >= 0
  /\ \A t \in Threads : loc[t].el >= 0

\* C9's case: the clock's arithmetic is below zero and the floor decides the reading.
C9_Witness == RawElapsed < 0 /\ hist.op = "reset"

\* C10: the steps of reset, set_remaining, add_time and subtract_time, and the
\* set_elapsed call itself, leave the paused flag and the pause instant
\* alone; those of pause and resume leave the offset, the total and the
\* segment count alone; those of set_ends change the segment count only.
C10_Frames ==
  [][\A t \in Threads :
       /\ (Step(t) /\ op[t] \in {"reset", "set_remaining", "add_time", "subtract_time"})
            => UNCHANGED <<paused, pause_epoch>>
       /\ SetElapsedCall(t) => UNCHANGED <<paused, pause_epoch>>
       /\ (Step(t) /\ op[t] \in {"pause", "resume"})
            => UNCHANGED <<manual_elapsed_offset, TOTAL_SECONDS, NUM_ENDS>>
       /\ (Step(t) /\ op[t] = "set_ends")
            => UNCHANGED <<clock, TOTAL_SECONDS>>]_vars

\* C10's case: set_elapsed has run on a clock paused some time before and the
\* clock is still paused, at the same pause instant.
C10_Witness ==
  /\ hist.op = "set_elapsed"
  /\ paused /\ pause_epoch # None /\ pause_epoch < start_epoch

\* C17: on the running clock, with no set, reset, add or subtract in between,
\* a reading taken d seconds after another is exactly d greater, whatever
\* pause, resume, reset and set operations came before.
C17_RunningClockAdvances ==
  [][(Tick /\ ~paused) => NowElapsed' = NowElapsed + 1]_vars

\* C18: when a set_total(newTotal) request returns, the elapsed reading is at
\* most newTotal, whatever set_remaining and reset requests ran beside it.
C18_SetTotalReturnsClamped ==
  [][\A t \in Threads : SetTotalReturn(t) => NowElapsed <= param[t].val]_vars

\* C19: for the same clock and configuration, the seconds the render loop
\* shows on its timer equal the elapsed_seconds that /status reports.
C19_RenderShowsStatusElapsed == ShowSeconds = StatusElapsedSeconds

\* C11: a set_remaining, set_total or set_ends request that is rejected
\* (missing parameter, unparsable value, total <= 0, count < 1) leaves the
\* clock state and the timer configuration (in memory and on disk) exactly as
\* they were: no step of its handler changes them.
C11_RejectedLeavesStateAlone ==
  [][\A t \in Threads : (Rejected(t) /\ Step(t)) => UNCHANGED <<clock, config, disk>>]_vars

C11_Witness ==
  \E t \in Threads : /\ pc[t] = "reject"
                     /\ op[t] = "set_total"
                     /\ param[t].kind = "num"
                     /\ param[t].val <= 0
                     /\ NowElapsed > 0

\* C12: in every reachable state the total is > 0 and the segment count is
\* >= 1, whatever set_total, set_ends and configuration-update requests, with
\* valid or invalid inputs, were served since a valid start.
C12_ConfigStaysValid == TOTAL_SECONDS > 0 /\ NUM_ENDS >= 1

C12_Witness ==
  /\ hist.op = "update_config"
  /\ \E t \in Threads : /\ pc[t] = "reject"
                        /\ op[t] = "update_config"
                        /\ param[t].total_seconds = Num(0)

\* C13: each /status payload is a point-in-time snapshot: at some instant
\* during the request the truncated elapsed, the total, the segment count and
\* the paused flag of the system all equalled the payload's values together.
C13_StatusIsSnapshot ==
  [][\A t \in Threads :
       StatusReadEnds(t)
         => <<Trunc(loc[t].el), loc[t].tot, NUM_ENDS, loc[t].paused>> \in seen[t]]_vars

\* C16: for every integer s >= 0 the clock text of s parses back to s, in
\* the MM:SS form (s < 3600) and in the H:MM:SS form (s >= 3600).
C16_FormatParseRoundTrip == (parsed # None /\ secs >= 0) => parsed = secs

C16_Witness ==
  /\ secs = 7265
  /\ text = <<"2", ":", "0", "1", ":", "0", "5">>
  /\ parsed = 7265

\* C15: when elapsed >= total the fraction is 1, each of the N segments has
\* fill ratio 1, the pointer is at N - 1 and no segment gets a partial fill.
C15_FullAtTotal ==
  (frame.drawn /\ frame.el >= frame.total)
    => /\ frame.frac = One
       /\ \A idx \in 0..(frame.N - 1) : frame.fills[idx] = One
       /\ frame.current_idx = frame.N - 1
       /\ frame.full_boxes = frame.N
       /\ frame.partial = Zero

C15_Witness ==
  /\ frame.drawn
  /\ frame.el = 7200 /\ frame.total = 7200 /\ frame.N = 8
  /\ frame.full_boxes = 8
  /\ frame.current_idx = 7

\* C20: for 0 <= elapsed < total the number of full segments is
\* floor(elapsed * N / total); segment i is filled 1 below that number, by the
\* fractional remainder at it and 0 above it, so that the fills sum to
\* fraction * N; at an exact segment boundary the partial fill is 0 and the
\* pointer is at the segment that begins there.
C20_SegmentFills ==
  (frame.drawn /\ frame.el < frame.total)
    => LET units == (frame.el * frame.N) \div frame.total
       IN /\ frame.full_boxes = units
          /\ \A idx \in 0..(frame.N - 1) :
               frame.fills[idx] = IF idx < units THEN One
                                  ELSE IF idx = units THEN frame.partial
                                  ELSE Zero
          /\ frame.end_units = [ip |-> frame.full_boxes, fb |-> frame.partial.fb]
          /\ (frame.el * frame.N) % frame.total = 0 => frame.partial = Zero
          /\ frame.current_idx = Min(frame.N - 1, units)

\* C14: in every rendered frame the progress fraction lies in [0, 1] and the
\* pointer index lies in [0, N - 1], N being the number of boxes drawn in that
\* frame, also when a set_ends changes the segment count around the frame.
C14_FrameInBounds ==
  frame.drawn
    => /\ ~FloatLess(frame.frac, Zero)
       /\ ~FloatLess(One, frame.frac)
       /\ frame.N = box_rects
       /\ frame.current_idx \in 0..(frame.N - 1)

C14_Witness ==
  /\ frame.drawn
  /\ NUM_ENDS # frame.N
  /\ frame.el >= frame.total
  /\ frame.current_idx = frame.N - 1

\* C21: each space-key press the render loop handles flips the paused flag
\* once (running becomes paused, paused becomes running), after which the loop
\* goes on to read the clock for the frame with state_lock free for the
\* other threads.
C21_SpaceKeyFlipsAndGoesOn ==
  \A b \in BOOLEAN :
    (rpc = "call" /\ rcall \in {"pause", "resume"} /\ paused = b)
      ~> (rpc = "read_el" /\ paused # b /\ state_lock = Free)

\* The reading the clock would show had no request been served: the time
\* since the module was loaded, at time 0.
Untouched == now

\* C22: once all the add_time requests sent to a running clock have returned,
\* no other request having been served, the reading is 60 seconds per request
\* above what it would have been without them, whatever the interleaving; and
\* likewise 60 seconds per request below for subtract_time requests when the
\* reading started at 60 seconds per request or more.
C22_NoIncrementLost ==
  (\A t \in Threads : pc[t] = "idle") =>
    /\ asked.sub = 0 => NowElapsed = Untouched + MINUTE * asked.add
    /\ (asked.add = 0 /\ Untouched >= MINUTE * asked.sub)
         => NowElapsed = Untouched - MINUTE * asked.sub

====
